---- MODULE Spec2Model ----
(***************************************************************************)
(* napari reader-plugin hook: napari_get_reader, declared with             *)
(* firstresult=True in napari/plugins/hook_specifications.py.              *)
(*                                                                         *)
(* The module models one viewer that opens paths.  Opening a path calls    *)
(* the napari_get_reader hook over the ordered list of registered hook     *)
(* implementations, hands the hook's result to read_data_with_plugins,     *)
(* which calls the returned reader function with the path, and adds one    *)
(* layer per LayerData tuple with Viewer._add_layer_from_data.             *)
(***************************************************************************)
EXTENDS Integers, Sequences, FiniteSets, TLC

VARIABLES
    registry,    \* ordered hook implementations registered for napari_get_reader
    pc,          \* position of the open_path call
    path,        \* the path argument of the open_path call in progress
    idx,         \* position in registry of the next implementation to call
    asked,       \* calls made to implementations in this hook call, in order
    results,     \* non-None values collected by the hook call so far
    result,      \* what the hook call returned to read_data_with_plugins
    reader_arg,  \* the argument the returned reader function was called with
    layer_data,  \* the list of LayerData tuples the reader function returned
    added,       \* the layers created from layer_data so far, in order
    outcome,     \* how the open_path call ended
    remembered   \* history: one earlier finished call, kept for comparison

vars == << registry, pc, path, idx, asked, results, result, reader_arg,
           layer_data, added, outcome, remembered >>

-----------------------------------------------------------------------------
(* Bounds *)

MaxPlugins == 2   \* most hook implementations registered at once
MaxList    == 2   \* longest list of paths passed as the path argument

-----------------------------------------------------------------------------
(* Values *)

\* Optional[ReaderFunction]: None, or a callable.  False is what the
\* docstring warns against returning in place of None.
None == [tag |-> "None", plugin |-> "-"]
False == [tag |-> "False", plugin |-> "-"]
ReaderFunction(p) == [tag |-> "callable", plugin |-> p]

\* a truthiness test (`if not res`) in place of `res is None`
IsNoneOrFalsy(v) == v.tag \in {"None", "False", "list_empty"}
\* "must return None (not False!)": absence is tested with `is None`
IsNone(v) == v = None

IsCallable(v) == v.tag = "callable"

\* the hook declared without firstresult
firstresultOff == FALSE
\* @napari_hook_specification(firstresult=True)
firstresult == TRUE

\* files a user may open
Files == {"/tmp/a.png", "/tmp/b.png", "/tmp/x.fake", "/tmp/unknown.xyz"}

splitext == [f \in Files |->
               CASE f = "/tmp/a.png" -> ".png"
                 [] f = "/tmp/b.png" -> ".png"
                 [] f = "/tmp/x.fake" -> ".fake"
                 [] f = "/tmp/unknown.xyz" -> ".xyz"]

Range(s) == {s[i] : i \in DOMAIN s}

\* lists of distinct files, of length 1..MaxList
FileLists == UNION {{s \in [1..n -> Files] : Cardinality(Range(s)) = n} : n \in 1..MaxList}

\* path: Union[str, List[str]].  A str carries exactly one name.
StrPath(f) == [shape |-> "str", names |-> <<f>>]
ListPath(s) == [shape |-> "list", names |-> s]
Paths == {StrPath(f) : f \in Files} \cup {ListPath(s) : s \in FileLists}

\* a caller that wraps a str into a one-element list
hookArgAsList(p) == ListPath(p.names)
\* the path is handed to every implementation, and to the reader function,
\* as the caller gave it
hookArg(p) == p

-----------------------------------------------------------------------------
(* Hook implementations used as plugins *)

PluginNames == {"png", "fake", "never", "bad"}

\* what the napari_get_reader implementation of plugin p returns for path a
get_reader(p, a) ==
    CASE p = "png" ->
           \* reads a .png file, or a stack of .png files
           IF \A i \in DOMAIN a.names : splitext[a.names[i]] = ".png"
           THEN ReaderFunction("png") ELSE None
      [] p = "fake" ->
           \* reads a single .fake file; does not read lists
           IF a.shape = "str" /\ splitext[a.names[1]] = ".fake"
           THEN ReaderFunction("fake") ELSE None
      [] p = "never" -> None
      [] p = "bad" -> False

NoArg == "<none>"
Data(a) == [pixels |-> a.names, shape |-> a.shape]

\* what the reader function of plugin p returns when called with path a:
\* a list of LayerData tuples (data,), (data, meta) or (data, meta, layer_type)
reader_function(p, a) ==
    CASE p = "png" /\ a.shape = "str" ->
           << <<Data(a), "meta_png", "image">>, <<Data(a), "meta_mask", "labels">> >>
      [] p = "png" /\ a.shape = "list" ->
           << <<Data(a), "meta_stack">> >>
      [] p = "fake" -> << <<Data(a)>> >>
      [] OTHER -> << >>

Layer(data, meta, layer_type) ==
    [data |-> data, meta |-> meta, layer_type |-> layer_type]

\* the second and third items taken in the wrong order
add_layer_swapped(t) ==
    Layer(t[1], IF Len(t) >= 3 THEN t[3] ELSE NoArg,
                IF Len(t) >= 2 THEN t[2] ELSE NoArg)
\* Viewer._add_layer_from_data(*t): the first, optional second and optional
\* third item are the data, meta and layer_type arguments
add_layer_from_data(t) ==
    Layer(t[1], IF Len(t) >= 2 THEN t[2] ELSE NoArg,
                IF Len(t) >= 3 THEN t[3] ELSE NoArg)

-----------------------------------------------------------------------------
(* State *)

Registries ==
    UNION {{s \in [1..n -> PluginNames] : Cardinality(Range(s)) = n} : n \in 0..MaxPlugins}

NoRecord ==
    [path |-> StrPath("-"), winner |-> "-", outcome |-> "-", layer_data |-> << >>,
     registry |-> << >>, others |-> FALSE]

Init ==
    /\ registry \in Registries
    /\ pc = "idle"
    /\ path = StrPath("-")
    /\ idx = 1
    /\ asked = << >>
    /\ results = << >>
    /\ result = None
    /\ reader_arg = StrPath("-")
    /\ layer_data = << >>
    /\ added = << >>
    /\ outcome = "-"
    /\ remembered = NoRecord

\* a dispatcher that moves the answering implementation to the front
registryMoveToFront(reg, k) ==
    IF k \in DOMAIN reg
    THEN <<reg[k]>> \o SubSeq(reg, 1, k - 1) \o SubSeq(reg, k + 1, Len(reg))
    ELSE reg
\* the registrations after a hook call in which the implementation at
\* position k answered (0: none did): the call retains nothing
registryAfterCall(reg, k) == reg

-----------------------------------------------------------------------------
(* Operations *)

\* Viewer.open_path(p): read_data_with_plugins calls the hook
OpenPath(p) ==
    /\ pc = "idle"
    /\ path' = p
    /\ pc' = IF Len(registry) = 0 THEN "hook_end" ELSE "hook"
    /\ UNCHANGED << registry, idx, asked, results, result, reader_arg,
                    layer_data, added, outcome, remembered >>

\* one iteration of the hook call's loop over the implementations
CallImpl ==
    /\ pc = "hook"
    /\ idx <= Len(registry)
    /\ LET res == get_reader(registry[idx], hookArg(path))
           stop == ~IsNone(res) /\ firstresult
       IN /\ asked' = Append(asked, [pos |-> idx, arg |-> hookArg(path), res |-> res])
          /\ results' = IF IsNone(res) THEN results ELSE Append(results, res)
          /\ idx' = idx + 1
          /\ pc' = IF stop \/ idx + 1 > Len(registry) THEN "hook_end" ELSE "hook"
    /\ UNCHANGED << registry, path, result, reader_arg, layer_data, added,
                    outcome, remembered >>

\* the hook call returns: with firstresult the first collected value or
\* None, otherwise the list of collected values
HookReturn ==
    /\ pc = "hook_end"
    /\ result' = IF firstresult
                 THEN IF results = << >> THEN None ELSE results[1]
                 ELSE [tag |-> IF results = << >> THEN "list_empty" ELSE "list",
                       plugin |-> "-", items |-> results]
    /\ pc' = "returned"
    /\ UNCHANGED << registry, path, idx, asked, results, reader_arg,
                    layer_data, added, outcome, remembered >>

\* read_data_with_plugins: no implementation returned a reader
NoReader ==
    /\ pc = "returned"
    /\ IsNone(result)
    /\ outcome' = "no_reader"
    /\ pc' = "done"
    /\ UNCHANGED << registry, path, idx, asked, results, result, reader_arg,
                    layer_data, added, remembered >>

\* read_data_with_plugins: the reader function is called with the path
CallReader ==
    /\ pc = "returned"
    /\ ~IsNone(result)
    /\ IsCallable(result)
    /\ reader_arg' = hookArg(path)
    /\ layer_data' = reader_function(result.plugin, hookArg(path))
    /\ outcome' = "reader"
    /\ pc' = IF layer_data' = << >> THEN "done" ELSE "loaded"
    /\ UNCHANGED << registry, path, idx, asked, results, result, added,
                    remembered >>

\* read_data_with_plugins: the value returned is present and not callable;
\* calling it raises
CallNotCallable ==
    /\ pc = "returned"
    /\ ~IsNone(result)
    /\ ~IsCallable(result)
    /\ outcome' = "raised"
    /\ pc' = "done"
    /\ UNCHANGED << registry, path, idx, asked, results, result, reader_arg,
                    layer_data, added, remembered >>

\* open_path: one iteration of the loop that adds a layer per tuple
AddLayer ==
    /\ pc = "loaded"
    /\ Len(added) < Len(layer_data)
    /\ added' = Append(added, add_layer_from_data(layer_data[Len(added) + 1]))
    /\ pc' = IF Len(added') = Len(layer_data) THEN "done" ELSE "loaded"
    /\ UNCHANGED << registry, path, idx, asked, results, result, reader_arg,
                    layer_data, outcome, remembered >>

\* position in the registry of the implementation whose value the hook
\* call returned, or 0
WinnerPos ==
    IF results = << >> THEN 0
    ELSE (CHOOSE i \in DOMAIN asked : asked[i].res = results[1] /\
             \A j \in 1..(i - 1) : IsNone(asked[j].res))

ThisCall ==
    [path |-> path,
     winner |-> IF IsCallable(result) THEN result.plugin ELSE "-",
     outcome |-> outcome,
     layer_data |-> layer_data,
     registry |-> registry,
     others |-> FALSE]

\* open_path returns; the history may keep this call's record
Return(keep) ==
    /\ pc = "done"
    /\ pc' = "idle"
    /\ registry' = registryAfterCall(registry, WinnerPos)
    /\ remembered' =
         IF remembered = NoRecord
         THEN IF keep THEN ThisCall ELSE remembered
         ELSE [remembered EXCEPT !.others = @ \/ path # remembered.path]
    \* the call's values do not outlive the call
    /\ path' = StrPath("-")
    /\ idx' = 1
    /\ asked' = << >>
    /\ results' = << >>
    /\ result' = None
    /\ reader_arg' = StrPath("-")
    /\ layer_data' = << >>
    /\ added' = << >>
    /\ outcome' = "-"

Next ==
    \/ \E p \in Paths : OpenPath(p)
    \/ CallImpl
    \/ HookReturn
    \/ NoReader
    \/ CallReader
    \/ CallNotCallable
    \/ AddLayer
    \/ \E keep \in BOOLEAN : Return(keep)

Spec == Init /\ [][Next]_vars

\* open_path is a synchronous call: once started, each of its steps runs
FairSpec == Spec /\ WF_vars(Next)

-----------------------------------------------------------------------------
(* Properties *)

Answered == pc \in {"returned", "loaded", "done"}

\* position of the earliest implementation in the registry whose
\* napari_get_reader returns something other than None for the path, or 0
FirstAnswer ==
    LET S == {i \in DOMAIN registry : get_reader(registry[i], path) # None}
    IN IF S = {} THEN 0 ELSE CHOOSE i \in S : \A j \in S : i <= j

\* C1: first result wins.  The hook call's result is the value returned by
\* the earliest implementation, in registry order, that returns something
\* other than None, and no implementation after that one is ever called for
\* the path.
C1_FirstResultWins ==
    (pc # "idle" /\ FirstAnswer # 0) =>
        /\ \A i \in DOMAIN asked : asked[i].pos <= FirstAnswer
        /\ Answered => result = get_reader(registry[FirstAnswer], path)

C1_Witness ==
    /\ pc = "returned"
    /\ IsCallable(result)
    /\ FirstAnswer # 0
    /\ FirstAnswer < Len(registry)
    /\ get_reader(registry[FirstAnswer + 1], path) # None
    /\ Len(asked) = FirstAnswer

AllDecline == \A i \in DOMAIN registry : get_reader(registry[i], path) = None

\* C4: when every registered implementation returns None for the path, the
\* call ends with "no reader" and does not raise, and "no reader" is only
\* ever reported after every registered implementation has been called.
C4_NoReaderAvailable ==
    /\ (pc = "done" /\ AllDecline) => outcome = "no_reader"
    /\ (pc # "idle" /\ AllDecline) => outcome # "raised"
    /\ (pc = "done" /\ outcome = "no_reader") =>
           /\ Len(asked) = Len(registry)
           /\ \A i \in DOMAIN registry : \E k \in DOMAIN asked : asked[k].pos = i

C4_Witness ==
    /\ pc = "done"
    /\ registry = <<"never">>
    /\ path = StrPath("/tmp/unknown.xyz")
    /\ outcome = "no_reader"
    /\ Len(asked) = 1

\* C5: only None means "this plugin does not read the path".  An
\* implementation that returns False ends the hook call there: no later
\* implementation is called, the hook call returns False itself, and the call
\* never ends as "no reader".
C5_FalseIsNotNone ==
    \A i \in DOMAIN asked :
        asked[i].res = False =>
            /\ i = Len(asked)
            /\ pc # "hook"
            /\ Answered => result = False
            /\ pc # "idle" => outcome # "no_reader"

C5_Witness ==
    /\ pc = "done"
    /\ Len(asked) < Len(registry)
    /\ asked[Len(asked)].res = False
    /\ outcome = "raised"

C7_NoneIsSilent ==
    /\ (pc = "hook_end" /\ Len(asked) < Len(registry)) =>
           /\ asked # << >>
           /\ asked[Len(asked)].res # None
    /\ (Answered /\ IsCallable(result)) =>
           \E k \in DOMAIN asked :
               /\ asked[k].res = result
               /\ \A j \in 1..k : asked[j].pos = j
               /\ \A j \in 1..(k - 1) : asked[j].res = None
    /\ \A k \in DOMAIN registry :
           ( /\ Answered
             /\ IsCallable(get_reader(registry[k], path))
             /\ \A j \in 1..(k - 1) : get_reader(registry[j], path) = None )
           => result = ReaderFunction(registry[k])

C7_Witness ==
    /\ pc = "returned"
    /\ IsCallable(result)
    /\ Len(asked) >= 2
    /\ asked[1].res = None

Conforming == \A i \in DOMAIN asked : asked[i].res = None \/ IsCallable(asked[i].res)

C10_Inv ==
    /\ Len(asked) <= Len(registry)
    /\ \A i, j \in DOMAIN asked : i # j => asked[i].pos # asked[j].pos
    /\ Cardinality({k \in DOMAIN asked : asked[k].res # None}) <= 1
    /\ Answered =>
           \/ /\ result = None
              /\ \A k \in DOMAIN asked : asked[k].res = None
           \/ /\ result # None
              /\ Cardinality({k \in DOMAIN asked : asked[k].res = result}) = 1
    /\ (Answered /\ Conforming) => (result = None) # IsCallable(result)

====
